---- MODULE Spec2Model ----
(***************************************************************************)
(* A model of clrk.py, the command-line investment ledger.                 *)
(*                                                                         *)
(* State: the two stored tables the transaction handlers read and write    *)
(* (assets.csv, the ledger; transactions.csv, the log), the report tables, *)
(* the Settings tuple, and the position of interactive_mode's loop.        *)
(*                                                                         *)
(* Money is fixed-point: every float of the program (amount, fees,         *)
(* unit_amount, total, income_per_unit_period) is an integer number of     *)
(* mills (1/1000 of a dollar), so that inputs with three decimal places    *)
(* exist and round(x, 2) is a real rounding to a multiple of 10 mills.     *)
(* The columns market, type, subtype and income_day_of_month of assets.csv *)
(* are never read or written by any handler or report and are left out.    *)
(***************************************************************************)
EXTENDS Integers, Sequences, FiniteSets, TLC

VARIABLES
    assets,        \* assets.csv: asset name -> row
    transactions,  \* transactions.csv: sequence of rows, as stored in the file
    reports,       \* report type -> the table last written for it
    settings,      \* the Settings namedtuple of interactive_mode
    pc,            \* position in interactive_mode: "prompt", "dispatch", "done",
                   \* and "append" between the two file writes of a handler
    args,          \* the parsed command line being dispatched
    ret,           \* what the last transaction handler returned
    err,           \* the ERROR line the last handler printed ("" when none),
                   \* or the exception that ended the process
    start,         \* history: the ledger and the log as they were at start-up
    made_from,     \* history: report type -> the ledger and the log its table was made from
    accepted       \* history: the number of transact commands whose handler returned True

vars == <<assets, transactions, reports, settings, pc, args, ret, err, start, made_from,
          accepted>>

----------------------------------------------------------------------------
(* Program constants *)

AccountTypes == <<"sdrsp", "locked_sdrsp", "margin", "tfsa", "resp">>

TransactionTypes == <<"buy", "sell", "xfer", "cont", "cont_limit", "div", "withdraw">>

ReportTypes == <<"monthly_income", "monthly_income_actual", "monthly_income_schedule", "tfsa_summary">>

Range(s) == {s[i] : i \in DOMAIN s}

\* argparse's default for an option that was not given
None == "None"

\* a missing value in a DataFrame (an empty csv cell once read)
NaN == "NaN"

----------------------------------------------------------------------------
(* Bounds of the model *)

\* commands are read while the log holds fewer than MaxLog records more than at start
MaxLog == 2

\* the units argument ranges over -1 .. MaxUnits
MaxUnits == 2

UnitsIn == {0 - 1} \cup (0 .. MaxUnits)

----------------------------------------------------------------------------
(* Fixed-point arithmetic *)

\* round(x, 2) on a value in mills: the nearest multiple of 10 mills.  A
\* decimal tie (last digit 5) is not exactly representable in binary, so
\* Python's result there depends on the float's expansion; the tie branch
\* follows round-half-even, and no input of the model produces a tie (all
\* amounts and fees have an even number of mills).
Round2(x) ==
    LET r == x % 10
        lo == x - r
    IN  IF r < 5 THEN lo
        ELSE IF r > 5 THEN lo + 10
        ELSE IF (lo \div 10) % 2 = 0 THEN lo ELSE lo + 10

----------------------------------------------------------------------------
(* csv storage *)

\* pd.read_csv of transactions.csv: an empty xfer_account cell is read as NaN
read_csv(file) ==
    [i \in DOMAIN file |->
        [file[i] EXCEPT !.xfer_account = IF @ = "" THEN NaN ELSE @]]

\* mutant: NaN is written out as it is (an na_rep other than '')
to_csv_keeps_nan(df) == df

\* DataFrame.to_csv: NaN is written as an empty cell
to_csv(df) ==
    [i \in DOMAIN df |->
        [df[i] EXCEPT !.xfer_account = IF @ = NaN THEN "" ELSE @]]

\* mutant: the frame to append is written in place of the combined one
append_csv_writes_appended_only(file, row) == to_csv(<<row>>)

\* append_csv('transactions', df): read the file, concatenate, write it back
append_csv(file, row) == to_csv(read_csv(file) \o <<row>>)

----------------------------------------------------------------------------
(* The data files at start-up *)

\* the rows of assets.csv, in file order; no handler adds, removes or reorders rows
AssetRows == <<"TD", "ENB">>

InitAssets ==
    ("TD" :> [income_per_unit_period |-> 250, sdrsp |-> 1, locked_sdrsp |-> 0,
              margin |-> 1, tfsa |-> 0, resp |-> 2,
              income_freq_months |-> 3, income_first_month |-> 2])
    @@
    ("ENB" :> [income_per_unit_period |-> 1000, sdrsp |-> 0, locked_sdrsp |-> 1,
               margin |-> 0, tfsa |-> 1, resp |-> 0,
               income_freq_months |-> 1, income_first_month |-> 1])

\* a header-only report file
NoReport == <<>>

InitReports == [t \in Range(ReportTypes) |-> NoReport]

\* a path is the sequence of its components
DefaultDatapath == <<"data">>

\* initialize_settings: verbosity LOW, datapath Path('data')
InitSettings == [datapath |-> DefaultDatapath, verbosity |-> "LOW"]

----------------------------------------------------------------------------
(* Command lines *)

\* the path of a datapath command given without --set
NoPath == <<>>

NoArgs ==
    [command |-> "", type |-> "", account |-> "", xfer_account |-> None,
     name |-> "", units |-> 0, amount |-> 0, fees |-> 0, date |-> "",
     path |-> NoPath, toggle |-> FALSE, list |-> ""]

\* the Namespace argparse builds for "transact"
TransactArgs(t, acct, xacct, n, u, amt, f, d) ==
    [NoArgs EXCEPT !.command = "transact", !.type = t, !.account = acct,
                   !.xfer_account = xacct, !.name = n, !.units = u,
                   !.amount = amt, !.fees = f, !.date = d]

Today == "2021-03-31"

\* the accounts named on the command lines of the model
ReqAccounts == {"margin", "tfsa"}

\* asset name and unit count: every unit count on TD, one request on an
\* asset that is not in the ledger
NameUnits == ({"TD"} \X UnitsIn) \cup {<<"XYZ", 1>>}

\* buy and sell at $1.004 a unit, no fees
BuySellRequests ==
    {TransactArgs(t, acct, None, nu[1], nu[2], 1004, 0, Today) :
        t \in {"buy", "sell"}, acct \in ReqAccounts, nu \in NameUnits}

\* xfer: no target, a target other than the source, the source as target
XferRequests ==
    {TransactArgs("xfer", acct, x, nu[1], nu[2], 1004, 0, Today) :
        acct \in ReqAccounts, x \in {None} \cup ReqAccounts, nu \in NameUnits}

\* amount and fees of the cash and dividend requests: negative, zero, positive
\* with three decimals
AmountFees == {<<0 - 1000, 0>>, <<0, 0>>, <<1004, 256>>}

DivRequests ==
    {TransactArgs("div", "tfsa", None, n, 1, af[1], af[2], Today) :
        n \in {"TD", "XYZ"}, af \in {<<250, 256>>, <<1004, 0>>}}

CashRequests ==
    {TransactArgs(t, "tfsa", None, n, 1, af[1], af[2], Today) :
        t \in {"cont", "cont_limit", "withdraw"}, n \in {"cash", "any"},
        af \in AmountFees}

TransactRequests ==
    BuySellRequests \cup XferRequests \cup DivRequests \cup CashRequests

----------------------------------------------------------------------------
(* Transaction handlers.  Each is an action on the two stored tables and   *)
(* the handler's outcome (ret, err).                                       *)

\* a handler's early return: the ERROR line, return False, nothing written
Fail(msg) ==
    /\ ret' = FALSE
    /\ err' = msg
    /\ UNCHANGED <<assets, transactions>>

\* a row of transactions.csv
Row(d, t, n, acct, xacct, u, amt, f, tot) ==
    [date |-> d, type |-> t, name |-> n, account |-> acct, xfer_account |-> xacct,
     units |-> u, unit_amount |-> amt, fees |-> f, total |-> tot]

\* round((args.units*args.amount)+args.fees, 2)
total_cost(a) == Round2((a.units * a.amount) + a.fees)

\* round((args.units*args.amount)-args.fees, 2)
total_dividend(a) == Round2((a.units * a.amount) - a.fees)

\* mutant: a sell adds the units, as a buy does
updated_acct_units_sell_adds(a, current) == current + a.units

\* the units left after a buy or a sell
updated_acct_units(a, current) ==
    IF a.type = "buy" THEN current + a.units ELSE current - a.units

\* mutant: a sell that empties the account is refused too
sell_refused_at_zero(a, updated) == a.type = "sell" /\ updated <= 0

\* the sell that is refused
sell_refused(a, updated) == a.type = "sell" /\ updated < 0

\* mutant: on the KeyError the asset is created, holding the units bought
buy_sell_transaction_creates_asset(a) ==
    LET known == a.name \in DOMAIN assets
        current == IF known THEN assets[a.name][a.account] ELSE 0
        updated == updated_acct_units(a, current)
        created == [income_per_unit_period |-> 0, sdrsp |-> 0, locked_sdrsp |-> 0,
                    margin |-> 0, tfsa |-> 0, resp |-> 0,
                    income_freq_months |-> 1, income_first_month |-> 1]
        ledger == IF known THEN assets ELSE assets @@ (a.name :> created)
    IN  IF sell_refused(a, updated)
        THEN Fail("trying to sell more units than exist")
        ELSE /\ assets' = [ledger EXCEPT ![a.name][a.account] = updated]
             /\ transactions' = append_csv(transactions,
                   Row(a.date, a.type, a.name, a.account, "", a.units,
                       Round2(a.amount), Round2(a.fees), total_cost(a)))
             /\ ret' = TRUE
             /\ err' = ""

buy_sell_transaction(a) ==
    IF a.name \notin DOMAIN assets
    THEN Fail("does not exist")
    ELSE LET current == assets[a.name][a.account]
             updated == updated_acct_units(a, current)
         IN  IF sell_refused(a, updated)
             THEN Fail("trying to sell more units than exist")
             ELSE /\ assets' = [assets EXCEPT ![a.name][a.account] = updated]
                  /\ transactions' = append_csv(transactions,
                        Row(a.date, a.type, a.name, a.account, "", a.units,
                            Round2(a.amount), Round2(a.fees), total_cost(a)))
                  /\ ret' = TRUE
                  /\ err' = ""

\* mutant: the rate is stored rounded, as the unit amounts of the log are
dividend_transaction_rounds_rate(a) ==
    IF a.name \notin DOMAIN assets
    THEN Fail("does not exist")
    ELSE LET dividend == assets[a.name].income_per_unit_period
         IN  /\ assets' = IF dividend # a.amount
                          THEN [assets EXCEPT
                                   ![a.name].income_per_unit_period = Round2(a.amount)]
                          ELSE assets
             /\ transactions' = append_csv(transactions,
                   Row(a.date, a.type, a.name, a.account, "", a.units,
                       a.amount, Round2(a.fees), total_dividend(a)))
             /\ ret' = TRUE
             /\ err' = ""

dividend_transaction(a) ==
    IF a.name \notin DOMAIN assets
    THEN Fail("does not exist")
    ELSE LET dividend == assets[a.name].income_per_unit_period
         IN  /\ assets' = IF dividend # a.amount
                          THEN [assets EXCEPT ![a.name].income_per_unit_period = a.amount]
                          ELSE assets
             /\ transactions' = append_csv(transactions,
                   Row(a.date, a.type, a.name, a.account, "", a.units,
                       a.amount, Round2(a.fees), total_dividend(a)))
             /\ ret' = TRUE
             /\ err' = ""

\* "if not args.xfer_account"
xfer_target_missing(a) == a.xfer_account = None

\* mutant: the target's units are assigned to the account's whole column
xfer_assets_whole_column(a, updated, updated_xfer) ==
    [n \in DOMAIN assets |->
        [[assets[n] EXCEPT ![a.account] = IF n = a.name THEN updated ELSE @]
                    EXCEPT ![a.xfer_account] = updated_xfer]]

\* the two assignments of the transfer, in the code's order: the target's
\* is made second and stands when source and target are the same cell
xfer_assets(a, updated, updated_xfer) ==
    [[assets EXCEPT ![a.name][a.account] = updated]
             EXCEPT ![a.name][a.xfer_account] = updated_xfer]

xfer_transaction(a) ==
    IF xfer_target_missing(a)
    THEN Fail("a xfer transaction requires a target account")
    ELSE IF a.name \notin DOMAIN assets
    THEN Fail("does not exist")
    ELSE LET current == assets[a.name][a.account]
             current_xfer == assets[a.name][a.xfer_account]
             updated == current - a.units
         IN  IF updated < 0
             THEN Fail("trying to transfer more units than exist")
             ELSE /\ assets' = xfer_assets(a, updated, current_xfer + a.units)
                  /\ transactions' = append_csv(transactions,
                        Row(a.date, a.type, a.name, a.account, a.xfer_account,
                            a.units, Round2(a.amount), Round2(a.fees), total_cost(a)))
                  /\ ret' = TRUE
                  /\ err' = ""

\* mutant: the log row is appended before the name is validated
contribute_transaction_late_check(a) ==
    IF a.amount < 0
    THEN Fail("must contribute more than $0")
    ELSE /\ transactions' = append_csv(transactions,
               Row(a.date, a.type, a.name, a.account, "", a.units,
                   Round2(a.amount), Round2(a.fees), total_cost(a)))
         /\ UNCHANGED assets
         /\ IF a.type = "cont" /\ a.name # "cash"
            THEN ret' = FALSE /\ err' = "cash contribution only"
            ELSE IF a.type = "cont_limit" /\ a.name # "any"
            THEN ret' = FALSE /\ err' = "contribution limit can be for anything"
            ELSE ret' = TRUE /\ err' = ""

contribute_transaction(a) ==
    IF a.amount < 0
    THEN Fail("must contribute more than $0")
    ELSE IF a.type = "cont" /\ a.name # "cash"
    THEN Fail("cash contribution only")
    ELSE IF a.type = "cont_limit" /\ a.name # "any"
    THEN Fail("contribution limit can be for anything")
    ELSE /\ transactions' = append_csv(transactions,
               Row(a.date, a.type, a.name, a.account, "", a.units,
                   Round2(a.amount), Round2(a.fees), total_cost(a)))
         /\ ret' = TRUE
         /\ err' = ""
         /\ UNCHANGED assets

\* mutant: the amount is tested as contribute_transaction tests it
withdrawal_transaction_accepts_zero(a) ==
    IF a.amount < 0
    THEN Fail("must withdraw more than $0")
    ELSE IF a.type = "withdraw" /\ a.name # "cash"
    THEN Fail("cash withdrawal only")
    ELSE /\ transactions' = append_csv(transactions,
               Row(a.date, a.type, a.name, a.account, "", a.units,
                   Round2(a.amount), Round2(a.fees), Round2(a.units * a.amount)))
         /\ ret' = TRUE
         /\ err' = ""
         /\ UNCHANGED assets

withdrawal_transaction(a) ==
    IF a.amount <= 0
    THEN Fail("must withdraw more than $0")
    ELSE IF a.type = "withdraw" /\ a.name # "cash"
    THEN Fail("cash withdrawal only")
    ELSE /\ transactions' = append_csv(transactions,
               Row(a.date, a.type, a.name, a.account, "", a.units,
                   Round2(a.amount), Round2(a.fees), Round2(a.units * a.amount)))
         /\ ret' = TRUE
         /\ err' = ""
         /\ UNCHANGED assets

----------------------------------------------------------------------------
(* interactive_mode: read a command line, dispatch it, prompt again *)

\* input('> ') and parse_args: one command line of the set cmds
read_command(cmds) ==
    /\ pc = "prompt"
    /\ \E a \in cmds :
          /\ args' = a
          /\ pc' = "dispatch"
    /\ ret' = TRUE
    /\ err' = ""
    /\ UNCHANGED <<assets, transactions, reports, settings, start, made_from, accepted>>

\* asset_transactions(args, settings) with process_transaction[args.type]
\* being handler; returns settings unchanged, whatever the handler returned
Dispatching(command, types) ==
    /\ pc = "dispatch"
    /\ args.command = command
    /\ args.type \in types

Prompt ==
    /\ pc' = "prompt"
    /\ args' = NoArgs

transact_buy_sell ==
    /\ Dispatching("transact", {"buy", "sell"})
    /\ buy_sell_transaction(args)
    /\ accepted' = IF ret' THEN accepted + 1 ELSE accepted
    /\ Prompt
    /\ UNCHANGED <<reports, settings, start, made_from>>

transact_xfer ==
    /\ Dispatching("transact", {"xfer"})
    /\ xfer_transaction(args)
    /\ accepted' = IF ret' THEN accepted + 1 ELSE accepted
    /\ Prompt
    /\ UNCHANGED <<reports, settings, start, made_from>>

transact_cont ==
    /\ Dispatching("transact", {"cont", "cont_limit"})
    /\ contribute_transaction(args)
    /\ accepted' = IF ret' THEN accepted + 1 ELSE accepted
    /\ Prompt
    /\ UNCHANGED <<reports, settings, start, made_from>>

transact_div ==
    /\ Dispatching("transact", {"div"})
    /\ dividend_transaction(args)
    /\ accepted' = IF ret' THEN accepted + 1 ELSE accepted
    /\ Prompt
    /\ UNCHANGED <<reports, settings, start, made_from>>

transact_withdraw ==
    /\ Dispatching("transact", {"withdraw"})
    /\ withdrawal_transaction(args)
    /\ accepted' = IF ret' THEN accepted + 1 ELSE accepted
    /\ Prompt
    /\ UNCHANGED <<reports, settings, start, made_from>>

\* the "quit" command, or end of input at the prompt
quit ==
    /\ pc = "prompt"
    /\ pc' = "done"
    /\ UNCHANGED <<assets, transactions, reports, settings, args, ret, err, start, made_from, accepted>>

----------------------------------------------------------------------------
(* Report generators: pure functions of the stored tables.  A report cell  *)
(* of the income reports is a float quotient; the model holds it exactly,  *)
(* as a number of twelfths of a mill.                                      *)

RECURSIVE SumColumn(_, _)
\* Series.sum() of one column of a table
SumColumn(table, col) ==
    IF table = <<>> THEN 0
    ELSE Head(table)[col] + SumColumn(Tail(table), col)

\* the columns of 'monthly_income' after name, as far as total_nonrrsp
\* (columns[1:-2]) and as far as monthly_total (columns[1:-1])
AccountColumns == {"sdrsp", "locked_sdrsp", "margin", "tfsa", "resp",
                   "total_rrsp", "total_nonrrsp"}

MonthlyColumns == AccountColumns \cup {"monthly_total"}

IncomeColumns == MonthlyColumns \cup {"yearly_total"}

\* mutant: the income of a period is not divided by the months of the period
account_income_per_period(row, account) ==
    row[account] * row.income_per_unit_period * 12

\* assets[account].mul(assets['income_per_unit_period']).divide(assets['income_freq_months'])
account_income(row, account) ==
    (row[account] * row.income_per_unit_period * 12) \div row.income_freq_months

\* one asset's row of report_series: the five accounts and the two subtotals
asset_income_row(name, row) ==
    LET inc == [a \in Range(AccountTypes) |-> account_income(row, a)]
    IN  [name |-> name,
         sdrsp |-> inc["sdrsp"], locked_sdrsp |-> inc["locked_sdrsp"],
         margin |-> inc["margin"], tfsa |-> inc["tfsa"], resp |-> inc["resp"],
         total_rrsp |-> inc["sdrsp"] + inc["locked_sdrsp"],
         total_nonrrsp |-> inc["margin"] + inc["tfsa"]]

\* the 'TOTAL MONTHLY' row: the sum of every column of the asset rows
monthly_by_account(report) ==
    [name |-> "TOTAL MONTHLY",
     sdrsp |-> SumColumn(report, "sdrsp"),
     locked_sdrsp |-> SumColumn(report, "locked_sdrsp"),
     margin |-> SumColumn(report, "margin"),
     tfsa |-> SumColumn(report, "tfsa"),
     resp |-> SumColumn(report, "resp"),
     total_rrsp |-> SumColumn(report, "total_rrsp"),
     total_nonrrsp |-> SumColumn(report, "total_nonrrsp")]

\* report['monthly_total']=report['resp'].add(report['total_rrsp']).add(report['total_nonrrsp'])
with_monthly_total(r) ==
    [name |-> r.name, sdrsp |-> r.sdrsp, locked_sdrsp |-> r.locked_sdrsp,
     margin |-> r.margin, tfsa |-> r.tfsa, resp |-> r.resp,
     total_rrsp |-> r.total_rrsp, total_nonrrsp |-> r.total_nonrrsp,
     monthly_total |-> r.resp + r.total_rrsp + r.total_nonrrsp]

\* report['yearly_total']=report['monthly_total'].mul(12)
with_yearly_total(r) ==
    [name |-> r.name, sdrsp |-> r.sdrsp, locked_sdrsp |-> r.locked_sdrsp,
     margin |-> r.margin, tfsa |-> r.tfsa, resp |-> r.resp,
     total_rrsp |-> r.total_rrsp, total_nonrrsp |-> r.total_nonrrsp,
     monthly_total |-> r.monthly_total,
     yearly_total |-> r.monthly_total * 12]

\* mutant: the 'TOTAL YEARLY' row repeats the monthly sums
total_yearly_row_not_times_12(monthly_totals) ==
    [name |-> "TOTAL YEARLY",
     sdrsp |-> SumColumn(monthly_totals, "sdrsp"),
     locked_sdrsp |-> SumColumn(monthly_totals, "locked_sdrsp"),
     margin |-> SumColumn(monthly_totals, "margin"),
     tfsa |-> SumColumn(monthly_totals, "tfsa"),
     resp |-> SumColumn(monthly_totals, "resp"),
     total_rrsp |-> SumColumn(monthly_totals, "total_rrsp"),
     total_nonrrsp |-> SumColumn(monthly_totals, "total_nonrrsp"),
     monthly_total |-> SumColumn(monthly_totals, "monthly_total"),
     yearly_total |-> 0]

\* the 'TOTAL YEARLY' row: 12 times the sum of every column but yearly_total
\* of the rows named 'TOTAL MONTHLY'; its yearly_total cell, NaN after the
\* concat, is then set to 0
total_yearly_row(monthly_totals) ==
    [name |-> "TOTAL YEARLY",
     sdrsp |-> SumColumn(monthly_totals, "sdrsp") * 12,
     locked_sdrsp |-> SumColumn(monthly_totals, "locked_sdrsp") * 12,
     margin |-> SumColumn(monthly_totals, "margin") * 12,
     tfsa |-> SumColumn(monthly_totals, "tfsa") * 12,
     resp |-> SumColumn(monthly_totals, "resp") * 12,
     total_rrsp |-> SumColumn(monthly_totals, "total_rrsp") * 12,
     total_nonrrsp |-> SumColumn(monthly_totals, "total_nonrrsp") * 12,
     monthly_total |-> SumColumn(monthly_totals, "monthly_total") * 12,
     yearly_total |-> 0]

gen_report_monthly_income(ledger) ==
    LET report == [i \in DOMAIN AssetRows |->
                      asset_income_row(AssetRows[i], ledger[AssetRows[i]])]
        with_total == report \o <<monthly_by_account(report)>>
        monthly == [i \in DOMAIN with_total |-> with_monthly_total(with_total[i])]
        IsTotalMonthly(r) == r.name = "TOTAL MONTHLY"
        monthly_totals == SelectSeq(monthly, IsTotalMonthly)
        yearly == [i \in DOMAIN monthly |-> with_yearly_total(monthly[i])]
    IN  yearly \o <<total_yearly_row(monthly_totals)>>

\* mutant: every cont, cont_limit and withdraw row is kept, whatever its account
tfsa_filter_any_account(r) ==
    \/ r.type \in {"cont", "cont_limit", "withdraw"}
    \/ r.xfer_account = "tfsa"

\* the rows the tfsa summary keeps
tfsa_filter(r) ==
    \/ (r.type \in {"cont", "cont_limit", "withdraw"} /\ r.account = "tfsa")
    \/ r.xfer_account = "tfsa"

\* tfsa_trans.loc[tfsa_trans['type']=='xfer',['type']]='xfer_in'
xfer_in(r) == [r EXCEPT !.type = IF @ = "xfer" THEN "xfer_in" ELSE @]

\* the labels a row of the log can carry after the relabelling, in the
\* sorted order groupby puts its groups in
GroupOrder == <<"buy", "cont", "cont_limit", "div", "sell", "withdraw", "xfer_in">>

\* groupby(['type']): size and sum of total of the group of one type
GroupRow(trans, t) ==
    LET InGroup(r) == r.type = t
        group == SelectSeq(trans, InGroup)
    IN  [type |-> t, num |-> Len(group), total |-> SumColumn(group, "total")]

\* report['total'][t], and 0.0 on a KeyError
group_total(report, t) ==
    IF \E i \in DOMAIN report : report[i].type = t
    THEN LET i == CHOOSE i \in DOMAIN report : report[i].type = t
         IN  report[i].total
    ELSE 0

\* cont_room=cont_limit_sum+withdraw_sum-cont_sum-xfer_in_sum
cont_room(report) ==
    group_total(report, "cont_limit") + group_total(report, "withdraw")
        - group_total(report, "cont") - group_total(report, "xfer_in")

gen_report_tfsa_summary(file) ==
    LET trans == read_csv(file)
        kept == SelectSeq(trans, tfsa_filter)
        tfsa_trans == [i \in DOMAIN kept |-> xfer_in(kept[i])]
        Present(t) == \E i \in DOMAIN tfsa_trans : tfsa_trans[i].type = t
        types == SelectSeq(GroupOrder, Present)
        report == [k \in DOMAIN types |-> GroupRow(tfsa_trans, types[k])]
    IN  report \o <<[type |-> "cont_room", num |-> 1, total |-> cont_room(report)]>>

\* the columns of 'monthly_income_schedule' after name (columns[1:]): the
\* rrsp column of month m is the (m*2-1)th, its nonrrsp column the (m*2)th
SchedColumns ==
    <<"jan_rrsp", "jan_nonrrsp", "feb_rrsp", "feb_nonrrsp", "mar_rrsp", "mar_nonrrsp",
      "apr_rrsp", "apr_nonrrsp", "may_rrsp", "may_nonrrsp", "jun_rrsp", "jun_nonrrsp",
      "jul_rrsp", "jul_nonrrsp", "aug_rrsp", "aug_nonrrsp", "sep_rrsp", "sep_nonrrsp",
      "oct_rrsp", "oct_nonrrsp", "nov_rrsp", "nov_nonrrsp", "dec_rrsp", "dec_nonrrsp">>

\* range(1,13)
Months == 1 .. 12

\* income['rrsp'] and income['nonrrsp'] of one asset: units times
\* income_per_unit_period, summed over the two accounts of each kind
sched_income(row) ==
    [rrsp |-> (row.sdrsp * row.income_per_unit_period)
                + (row.locked_sdrsp * row.income_per_unit_period),
     nonrrsp |-> (row.margin * row.income_per_unit_period)
                   + (row.tfsa * row.income_per_unit_period)]

\* mutant: the month is not compared with the first month of payment
pays_in_any_cycle(month, starting_month, freq) ==
    (month - starting_month) % freq = 0

\* the month is one in which the asset pays
pays_in(month, starting_month, freq) ==
    /\ month >= starting_month
    /\ (month - starting_month) % freq = 0

\* the cell of one asset in the column of one kind ("rrsp", "nonrrsp") of one month
sched_cell(row, month, kind) ==
    IF pays_in(month, row.income_first_month, row.income_freq_months)
    THEN sched_income(row)[kind] ELSE 0

\* one asset's row of the schedule: the index (name) and the 24 month columns
sched_row(name, row) ==
    [name |-> name]
    @@ [c \in Range(SchedColumns) |->
           LET k == CHOOSE k \in DOMAIN SchedColumns : SchedColumns[k] = c
           IN  IF k % 2 = 1 THEN sched_cell(row, (k + 1) \div 2, "rrsp")
               ELSE sched_cell(row, k \div 2, "nonrrsp")]

\* the 'TOTAL' row: the sum of every column of the asset rows
sched_total_row(report) ==
    [name |-> "TOTAL"] @@ [c \in Range(SchedColumns) |-> SumColumn(report, c)]

gen_report_monthly_income_sched(ledger) ==
    LET report == [i \in DOMAIN AssetRows |->
                      sched_row(AssetRows[i], ledger[AssetRows[i]])]
    IN  report \o <<sched_total_row(report)>>

\* the dates of the model's records in calendar order: the date column holds
\* ISO dates as strings, which sort_values orders as the calendar does
Dates ==
    <<"2021-01-04", "2021-01-05", "2021-01-06", "2021-01-07", "2021-01-08",
      "2021-02-01", "2021-02-02", "2021-03-31">>

date_rank(d) == CHOOSE k \in DOMAIN Dates : Dates[k] = d

\* div_trans[(div_trans['name']==n)&(div_trans['account']==acct)]
acct_divs(trans, n, acct) ==
    LET IsDivOf(r) == r.type = "div" /\ r.name = n /\ r.account = acct
    IN  SelectSeq(trans, IsDivOf)

\* the rows acct_divs['total'][acct_divs.last_valid_index()] selects.  The
\* frame is indexed by date (index_col=0) and sorted by it, so the label is
\* the latest date, and the lookup by label yields every row of that date
latest_divs(divs) ==
    LET IsLatest(r) == \A i \in DOMAIN divs : date_rank(divs[i].date) <= date_rank(r.date)
    IN  SelectSeq(divs, IsLatest)

\* div_income of one asset and account: 0.0 for an account that holds no
\* units and on the KeyError of an empty selection
div_income(row, trans, n, acct) ==
    IF row[acct] > 0
    THEN LET latest == latest_divs(acct_divs(trans, n, acct))
         IN  IF latest = <<>> THEN 0 ELSE latest[1].total
    ELSE 0

\* the lookup yields a Series, not a number, when several rows carry the
\* latest date; math.fsum then raises TypeError on the column holding it
actual_raises(ledger, file) ==
    \E n \in DOMAIN ledger : \E acct \in Range(AccountTypes) :
        /\ ledger[n][acct] > 0
        /\ Len(latest_divs(acct_divs(read_csv(file), n, acct))) > 1

\* one asset's row of the actual income: div_income/income_freq per account
\* and the four totals
actual_income_row(name, row, trans) ==
    LET inc == [a \in Range(AccountTypes) |->
                   (div_income(row, trans, name, a) * 12) \div row.income_freq_months]
        total_rrsp == inc["sdrsp"] + inc["locked_sdrsp"]
        total_nonrrsp == inc["margin"] + inc["tfsa"]
        monthly_total == total_rrsp + total_nonrrsp + inc["resp"]
    IN  [name |-> name,
         sdrsp |-> inc["sdrsp"], locked_sdrsp |-> inc["locked_sdrsp"],
         margin |-> inc["margin"], tfsa |-> inc["tfsa"], resp |-> inc["resp"],
         total_rrsp |-> total_rrsp, total_nonrrsp |-> total_nonrrsp,
         monthly_total |-> monthly_total, yearly_total |-> monthly_total * 12]

\* the 'TOTAL_MONTHLY' (times 1) and 'TOTAL_YEARLY' (times 12) rows: fsum of
\* every column of the asset rows
actual_total_row(name, rows, times) ==
    [name |-> name,
     sdrsp |-> SumColumn(rows, "sdrsp") * times,
     locked_sdrsp |-> SumColumn(rows, "locked_sdrsp") * times,
     margin |-> SumColumn(rows, "margin") * times,
     tfsa |-> SumColumn(rows, "tfsa") * times,
     resp |-> SumColumn(rows, "resp") * times,
     total_rrsp |-> SumColumn(rows, "total_rrsp") * times,
     total_nonrrsp |-> SumColumn(rows, "total_nonrrsp") * times,
     monthly_total |-> SumColumn(rows, "monthly_total") * times,
     yearly_total |-> SumColumn(rows, "yearly_total") * times]

gen_report_monthly_income_actual(ledger, file) ==
    LET trans == read_csv(file)
        rows == [i \in DOMAIN AssetRows |->
                    actual_income_row(AssetRows[i], ledger[AssetRows[i]], trans)]
    IN  rows \o <<actual_total_row("TOTAL_MONTHLY", rows, 1),
                  [actual_total_row("TOTAL_YEARLY", rows, 12) EXCEPT !.yearly_total = 0]>>

\* gen_report[args.type]()
gen_report(type) ==
    CASE type = "monthly_income" -> gen_report_monthly_income(assets)
      [] type = "monthly_income_actual" ->
            gen_report_monthly_income_actual(assets, transactions)
      [] type = "monthly_income_schedule" -> gen_report_monthly_income_sched(assets)
      [] type = "tfsa_summary" -> gen_report_tfsa_summary(transactions)

\* the generator raises an exception
gen_report_raises(type) ==
    type = "monthly_income_actual" /\ actual_raises(assets, transactions)

\* mutant: the table is added to the rows the file holds
write_data_file_appends(data_type, df) ==
    [reports EXCEPT ![data_type] = @ \o df]

\* mutant: every report is written over the file of the income projection
write_data_file_one_name(data_type, df) ==
    [reports EXCEPT !["monthly_income"] = df]

\* write_data_file('csv', df, data_type, output_index) of a report: the file
\* investment_data[data_type].filename is overwritten with the table
write_data_file(data_type, df) ==
    [reports EXCEPT ![data_type] = df]

\* the two stored tables a generator reads
Snapshot == [assets |-> assets, transactions |-> transactions]

\* no table has been made yet
NotMade == [t \in Range(ReportTypes) |-> <<>>]

\* generate_report: the table is built and written over the report's file.
\* Nothing catches an exception of the generator: the traceback is printed
\* and the process ends with no file written
generate_report ==
    /\ Dispatching("report", Range(ReportTypes))
    /\ IF gen_report_raises(args.type)
       THEN /\ pc' = "done"
            /\ err' = "TypeError"
            /\ UNCHANGED <<reports, args, made_from>>
       ELSE /\ reports' = write_data_file(args.type, gen_report(args.type))
            /\ made_from' = [made_from EXCEPT ![args.type] = <<Snapshot>>]
            /\ Prompt
            /\ UNCHANGED err
    /\ UNCHANGED <<assets, transactions, settings, ret, start, accepted>>

\* list_data: a table is read and printed
list_data ==
    /\ Dispatching("list", {""})
    /\ Prompt
    /\ UNCHANGED <<assets, transactions, reports, settings, ret, err, start, made_from, accepted>>

----------------------------------------------------------------------------
(* Settings commands *)

\* the directories and the data files that exist
Directories == {<<"data">>, <<"data2">>, <<"backup">>, <<"backup", "data">>,
                <<"mirror">>, <<"mirror", "data">>}

DataDirectories == {<<"data">>, <<"data2">>, <<"backup", "data">>,
                    <<"mirror">>, <<"mirror", "data">>}

\* investment_data[type].filename once initialize_settings has prefixed it
\* with the start-up datapath
Filename(file) == DefaultDatapath \o <<file>>

DataFiles == {"assets.csv", "income_monthly.csv", "income_monthly_sched.csv",
              "income_monthly_actual.csv", "tfsa_summary.csv", "transactions.csv"}

Exists(path) ==
    \E d \in DataDirectories : \E f \in DataFiles : path = d \o <<f>>

\* data_files_exist(path, print_output)
data_files_exist(path) ==
    /\ path \in Directories
    /\ \A f \in DataFiles : Exists(path \o Filename(f))

\* datapath(args, settings)
datapath ==
    /\ Dispatching("datapath", {""})
    /\ settings' = [settings EXCEPT !.datapath =
                       IF /\ args.path # NoPath
                          /\ args.path \in Directories
                          /\ data_files_exist(args.path)
                       THEN args.path ELSE @]
    /\ Prompt
    /\ UNCHANGED <<assets, transactions, reports, ret, err, start, made_from, accepted>>

\* verbosity(args, settings)
verbosity ==
    /\ Dispatching("verbosity", {""})
    /\ settings' = [settings EXCEPT !.verbosity =
                       IF args.toggle
                       THEN (IF @ = "LOW" THEN "HIGH" ELSE "LOW")
                       ELSE @]
    /\ Prompt
    /\ UNCHANGED <<assets, transactions, reports, ret, err, start, made_from, accepted>>

----------------------------------------------------------------------------
(* The transaction engine: transact commands on the start-up ledger and an *)
(* empty log.                                                              *)

Init ==
    /\ assets = InitAssets
    /\ transactions = <<>>
    /\ reports = InitReports
    /\ settings = InitSettings
    /\ pc = "prompt"
    /\ args = NoArgs
    /\ ret = TRUE
    /\ err = ""
    /\ start = [assets |-> assets, transactions |-> transactions]
    /\ made_from = NotMade
    /\ accepted = 0

ReadTransact ==
    /\ Len(transactions) < MaxLog
    /\ read_command(TransactRequests)

Next ==
    \/ ReadTransact
    \/ transact_buy_sell
    \/ transact_xfer
    \/ transact_cont
    \/ transact_div
    \/ transact_withdraw
    \/ quit

Spec == Init /\ [][Next]_vars

----------------------------------------------------------------------------
(* The command loop: every command of the dispatch table, on a start-up    *)
(* log that earlier sessions have written.                                 *)

\* transact commands are read while the log holds fewer than MaxAppend rows
\* more than at start-up
MaxAppend == 1

\* the log of the spec's contribution-room example: cont_limit $6000,
\* cont $1000, withdraw $200, xfer into tfsa $300
ExampleLog ==
    << Row("2021-01-04", "cont_limit", "any", "tfsa", "", 1, 6000000, 0, 6000000),
       Row("2021-01-05", "cont", "cash", "tfsa", "", 1, 1000000, 0, 1000000),
       Row("2021-02-01", "withdraw", "cash", "tfsa", "", 1, 200000, 0, 200000),
       Row("2021-02-02", "xfer", "ENB", "margin", "tfsa", 1, 300000, 0, 300000) >>

\* a log of rows the contribution room must not count, around one it must
MixedLog ==
    << Row("2021-01-04", "cont", "cash", "margin", "", 1, 500000, 0, 500000),
       Row("2021-01-05", "xfer", "TD", "tfsa", "margin", 1, 40000, 0, 40000),
       Row("2021-01-06", "buy", "ENB", "tfsa", "", 1, 30000, 1000, 31000),
       Row("2021-01-07", "cont_limit", "any", "tfsa", "", 2, 1000000, 0, 2000000),
       Row("2021-01-08", "div", "ENB", "tfsa", "", 1, 1000, 0, 1000) >>

InitLogs == {<<>>, ExampleLog, MixedLog}

CommandTransactRequests ==
    { TransactArgs("buy", "tfsa", None, "TD", 1, 1004, 0, Today),
      TransactArgs("sell", "margin", None, "TD", 1, 1004, 0, Today),
      TransactArgs("sell", "tfsa", None, "TD", 2, 1004, 0, Today),
      TransactArgs("xfer", "margin", "tfsa", "TD", 1, 1004, 0, Today),
      TransactArgs("xfer", "margin", None, "TD", 1, 1004, 0, Today),
      TransactArgs("cont", "tfsa", None, "cash", 1, 1004, 256, Today),
      TransactArgs("cont", "margin", None, "cash", 1, 1004, 256, Today),
      TransactArgs("cont_limit", "tfsa", None, "any", 1, 1004, 256, Today),
      TransactArgs("withdraw", "tfsa", None, "cash", 1, 1004, 256, Today),
      TransactArgs("withdraw", "tfsa", None, "cash", 1, 0, 0, Today),
      TransactArgs("div", "tfsa", None, "TD", 1, 1004, 0, Today) }

\* the reports of the command loop: one made of the ledger, one of the log
ReportRequests ==
    {[NoArgs EXCEPT !.command = "report", !.type = t] :
        t \in {"monthly_income", "tfsa_summary"}}

ListRequests ==
    {[NoArgs EXCEPT !.command = "list", !.list = d] :
        d \in {"assets", "transactions", "tfsa_summary"}}

DatapathRequests ==
    {[NoArgs EXCEPT !.command = "datapath", !.path = p] :
        p \in {NoPath, <<"data2">>, <<"backup">>, <<"mirror">>, <<"nodir">>}}

VerbosityRequests ==
    {[NoArgs EXCEPT !.command = "verbosity", !.toggle = t] : t \in BOOLEAN}

InitCommands ==
    /\ assets = InitAssets
    /\ transactions \in InitLogs
    /\ reports = InitReports
    /\ settings = InitSettings
    /\ pc = "prompt"
    /\ args = NoArgs
    /\ ret = TRUE
    /\ err = ""
    /\ start = [assets |-> assets, transactions |-> transactions]
    /\ made_from = NotMade
    /\ accepted = 0

ReadCommandTransact ==
    /\ Len(transactions) < Len(start.transactions) + MaxAppend
    /\ read_command(CommandTransactRequests)

ReadCommand ==
    /\ pc = "prompt"
    /\ read_command(ReportRequests \cup ListRequests \cup DatapathRequests
                        \cup VerbosityRequests)

NextCommands ==
    \/ ReadCommandTransact
    \/ ReadCommand
    \/ transact_buy_sell
    \/ transact_xfer
    \/ transact_cont
    \/ transact_div
    \/ transact_withdraw
    \/ generate_report
    \/ list_data
    \/ datapath
    \/ verbosity
    \/ quit

SpecCommands == InitCommands /\ [][NextCommands]_vars

----------------------------------------------------------------------------
(* The reports: the four report types, generated between transactions on   *)
(* ledgers and logs that earlier sessions have written.                    *)

\* a ledger whose assets first pay late in the year: TD in months 5, 8, 11,
\* ENB in months 4 and 10
LateAssets ==
    ("TD" :> [income_per_unit_period |-> 250, sdrsp |-> 2, locked_sdrsp |-> 1,
              margin |-> 0, tfsa |-> 3, resp |-> 1,
              income_freq_months |-> 3, income_first_month |-> 5])
    @@
    ("ENB" :> [income_per_unit_period |-> 1000, sdrsp |-> 1, locked_sdrsp |-> 0,
               margin |-> 2, tfsa |-> 1, resp |-> 4,
               income_freq_months |-> 6, income_first_month |-> 4])

InitLedgers == {InitAssets, LateAssets}

\* a log of dividends: those of ENB in tfsa entered out of calendar order
\* (the latest first), one of TD in margin, one of TD in resp
DivLog ==
    << Row("2021-02-01", "div", "ENB", "tfsa", "", 1, 1000, 0, 1000),
       Row("2021-01-05", "div", "ENB", "tfsa", "", 1, 900, 0, 900),
       Row("2021-01-06", "div", "TD", "margin", "", 1, 250, 10, 240),
       Row("2021-01-07", "div", "TD", "resp", "", 2, 250, 0, 500),
       Row("2021-01-08", "div", "TD", "tfsa", "", 3, 250, 0, 750) >>

ReportLogs == {MixedLog, DivLog}

\* transactions between the reports: dividends dated after, before and on
\* the day of the recorded ones, a buy, a contribution
ReportTransactRequests ==
    { TransactArgs("div", "tfsa", None, "ENB", 1, 1200, 0, Today),
      TransactArgs("div", "tfsa", None, "ENB", 1, 800, 0, "2021-01-04"),
      TransactArgs("div", "tfsa", None, "ENB", 1, 1000, 0, "2021-02-01"),
      TransactArgs("buy", "tfsa", None, "TD", 1, 1004, 0, Today),
      TransactArgs("cont", "tfsa", None, "cash", 1, 1004, 256, Today),
      TransactArgs("sell", "tfsa", None, "TD", 9, 1004, 0, Today) }

AllReportRequests ==
    {[NoArgs EXCEPT !.command = "report", !.type = t] : t \in Range(ReportTypes)}

InitReporting ==
    /\ assets \in InitLedgers
    /\ transactions \in ReportLogs
    /\ reports = InitReports
    /\ settings = InitSettings
    /\ pc = "prompt"
    /\ args = NoArgs
    /\ ret = TRUE
    /\ err = ""
    /\ start = [assets |-> assets, transactions |-> transactions]
    /\ made_from = NotMade
    /\ accepted = 0

ReadReportTransact ==
    /\ Len(transactions) < Len(start.transactions) + MaxAppend
    /\ read_command(ReportTransactRequests)

ReadReport ==
    /\ pc = "prompt"
    /\ read_command(AllReportRequests \cup VerbosityRequests)

NextReports ==
    \/ ReadReportTransact
    \/ ReadReport
    \/ transact_buy_sell
    \/ transact_cont
    \/ transact_div
    \/ generate_report
    \/ verbosity
    \/ quit

SpecReports == InitReporting /\ [][NextReports]_vars

----------------------------------------------------------------------------
(* The storage writes: the handlers of buy, sell, xfer and div taken one   *)
(* file write at a time.  assets.csv is written first (write_data_file),   *)
(* transactions.csv second (append_csv); between the two pc is "append".   *)

\* the handler gets past its checks and early returns
passes_checks(a) ==
    CASE a.type \in {"buy", "sell"} ->
            /\ a.name \in DOMAIN assets
            /\ ~sell_refused(a, updated_acct_units(a, assets[a.name][a.account]))
      [] a.type = "xfer" ->
            /\ ~xfer_target_missing(a)
            /\ a.name \in DOMAIN assets
            /\ assets[a.name][a.account] - a.units >= 0
      [] a.type = "div" -> a.name \in DOMAIN assets

\* the ledger after the handler's write_data_file('csv', assets, 'assets', True);
\* a div at the stored rate writes nothing
assets_written(a) ==
    CASE a.type \in {"buy", "sell"} ->
            [assets EXCEPT ![a.name][a.account] = updated_acct_units(a, @)]
      [] a.type = "xfer" ->
            xfer_assets(a, assets[a.name][a.account] - a.units,
                           assets[a.name][a.xfer_account] + a.units)
      [] a.type = "div" ->
            IF assets[a.name].income_per_unit_period # a.amount
            THEN [assets EXCEPT ![a.name].income_per_unit_period = a.amount]
            ELSE assets

\* the DataFrame the handler hands to append_csv
row_appended(a) ==
    CASE a.type \in {"buy", "sell"} ->
            Row(a.date, a.type, a.name, a.account, "", a.units,
                Round2(a.amount), Round2(a.fees), total_cost(a))
      [] a.type = "xfer" ->
            Row(a.date, a.type, a.name, a.account, a.xfer_account, a.units,
                Round2(a.amount), Round2(a.fees), total_cost(a))
      [] a.type = "div" ->
            Row(a.date, a.type, a.name, a.account, "", a.units,
                a.amount, Round2(a.fees), total_dividend(a))

\* the first write: the ledger
write_assets ==
    /\ Dispatching("transact", {"buy", "sell", "xfer", "div"})
    /\ passes_checks(args)
    /\ assets' = assets_written(args)
    /\ pc' = "append"
    /\ UNCHANGED <<transactions, reports, settings, args, ret, err, start, made_from, accepted>>

\* the second write: the log; the handler returns True
append_transaction ==
    /\ pc = "append"
    /\ transactions' = append_csv(transactions, row_appended(args))
    /\ ret' = TRUE
    /\ err' = ""
    /\ accepted' = accepted + 1
    /\ Prompt
    /\ UNCHANGED <<assets, reports, settings, start, made_from>>

\* the handler returns False at one of its checks
transact_refused ==
    /\ Dispatching("transact", {"buy", "sell", "xfer", "div"})
    /\ ~passes_checks(args)
    /\ \/ transact_buy_sell
       \/ transact_xfer
       \/ transact_div

\* the process stops while a command is being handled (a signal, an
\* exception of the file system, the machine going down)
killed ==
    /\ pc \in {"dispatch", "append"}
    /\ pc' = "done"
    /\ UNCHANGED <<assets, transactions, reports, settings, args, ret, err, start, made_from, accepted>>

NextStorage ==
    \/ ReadTransact
    \/ write_assets
    \/ append_transaction
    \/ transact_refused
    \/ transact_cont
    \/ transact_withdraw
    \/ killed
    \/ quit

SpecStorage == Init /\ [][NextStorage]_vars

----------------------------------------------------------------------------
(* Vocabulary of the properties *)

Accounts == Range(AccountTypes)

\* the command being dispatched is a transact of one of the given types
Transacting(types) ==
    /\ pc = "dispatch"
    /\ args.command = "transact"
    /\ args.type \in types

\* the sum of the units of the log rows of one type on one (asset, account)
RECURSIVE UnitsLogged(_, _, _, _)
UnitsLogged(log, t, n, acct) ==
    IF log = <<>> THEN 0
    ELSE (IF /\ Head(log).type = t
             /\ Head(log).name = n
             /\ Head(log).account = acct
          THEN Head(log).units ELSE 0)
         + UnitsLogged(Tail(log), t, n, acct)

\* no xfer in the log has the cell (n, acct) as its source or its target
BuySellOnly(n, acct) ==
    \A i \in DOMAIN transactions :
        (transactions[i].type = "xfer" /\ transactions[i].name = n)
            => (transactions[i].account # acct /\ transactions[i].xfer_account # acct)

\* every cell of the ledger other than those in cells is unchanged
OtherCellsUnchanged(cells) ==
    \A n \in DOMAIN assets :
        /\ DOMAIN assets' = DOMAIN assets
        /\ assets'[n].income_per_unit_period = assets[n].income_per_unit_period
        /\ assets'[n].income_freq_months = assets[n].income_freq_months
        /\ assets'[n].income_first_month = assets[n].income_first_month
        /\ \A acct \in Accounts :
              <<n, acct>> \notin cells => assets'[n][acct] = assets[n][acct]

----------------------------------------------------------------------------
(* C1 .. C6, C8: the transaction handlers *)

\* C1: on every (asset, account) cell that only buys and sells have touched,
\* the balance is the starting balance plus the units of the applied buys
\* minus the units of the applied sells.
C1_BuySellBalance ==
    \A n \in DOMAIN assets : \A acct \in Accounts :
        BuySellOnly(n, acct) =>
            assets[n][acct] = start.assets[n][acct]
                              + UnitsLogged(transactions, "buy", n, acct)
                              - UnitsLogged(transactions, "sell", n, acct)

\* a cell with a buy and a sell of units applied to it
C1_Witness ==
    /\ Len(transactions) = MaxLog
    /\ \A i \in DOMAIN transactions :
          /\ transactions[i].type \in {"buy", "sell"}
          /\ transactions[i].name = "TD"
          /\ transactions[i].account = "margin"
          /\ transactions[i].units > 0
    /\ \E i, j \in DOMAIN transactions :
          transactions[i].type = "buy" /\ transactions[j].type = "sell"

\* C2: a sell of more units than the cell holds is refused with the
\* insufficient-units error, the ledger and the log staying as they were; a
\* sell of exactly the balance is accepted and leaves 0.
C2_SellBeyondBalance ==
    [][(Transacting({"sell"}) /\ args.name \in DOMAIN assets) =>
          LET balance == assets[args.name][args.account]
          IN  /\ args.units > balance =>
                    /\ ret' = FALSE
                    /\ err' = "trying to sell more units than exist"
                    /\ assets' = assets
                    /\ transactions' = transactions
              /\ args.units = balance =>
                    /\ ret' = TRUE
                    /\ assets'[args.name][args.account] = 0
                    /\ Len(transactions') = Len(transactions) + 1]_vars

\* a sell of the whole balance went through, and the next sell was refused
C2_Witness ==
    /\ err = "trying to sell more units than exist"
    /\ transactions # <<>>
    /\ LET last == transactions[Len(transactions)]
       IN  /\ last.type = "sell"
           /\ last.units > 0
           /\ assets[last.name][last.account] = 0

\* C3 as claimed: every accepted xfer leaves units[source] + units[target]
\* as it was, and every other cell of the ledger unchanged.
C3_XferConserves ==
    [][(Transacting({"xfer"}) /\ ret') =>
          /\ assets'[args.name][args.account] + assets'[args.name][args.xfer_account]
               = assets[args.name][args.account] + assets[args.name][args.xfer_account]
          /\ OtherCellsUnchanged({<<args.name, args.account>>,
                                  <<args.name, args.xfer_account>>})]_vars

\* C4 as claimed: an xfer with no target, or with the source as target, is
\* refused and writes nothing.
C4_XferTargetRequired ==
    [][(Transacting({"xfer"})
          /\ (args.xfer_account = None \/ args.xfer_account = args.account)) =>
              /\ ret' = FALSE
              /\ assets' = assets
              /\ transactions' = transactions]_vars

\* C5 as claimed: no cell of the ledger ever holds a negative unit count.
C5_UnitsNonNegative ==
    \A n \in DOMAIN assets : \A acct \in Accounts : assets[n][acct] >= 0

\* C6: a transact command whose handler returns False leaves the ledger and
\* the log exactly as they were.
C6_FailureWritesNothing ==
    [][(Transacting(Range(TransactionTypes)) /\ ~ret') =>
          (assets' = assets /\ transactions' = transactions)]_vars

\* a refused command after an applied one
C6_Witness ==
    /\ pc = "prompt"
    /\ ~ret
    /\ err = "cash contribution only"
    /\ transactions # <<>>

\* the total formula of the type, on the fields the row itself stores
RowFormula(row) ==
    IF row.type = "div" THEN (row.units * row.unit_amount) - row.fees
    ELSE IF row.type = "withdraw" THEN row.units * row.unit_amount
    ELSE (row.units * row.unit_amount) + row.fees

\* C8 as claimed: the total of every row of the log is the formula of its
\* type applied to the units, unit_amount and fees of that row.
C8_TotalFromStoredFields ==
    \A i \in DOMAIN transactions :
        transactions[i].total = RowFormula(transactions[i])

----------------------------------------------------------------------------
(* C7, C9, C10: the log and the reports under the command loop *)

IsPrefix(s, t) ==
    /\ Len(s) <= Len(t)
    /\ \A i \in DOMAIN s : s[i] = t[i]

\* C7: whatever the command (transact, report, list, datapath, verbosity),
\* the log before it is a prefix of the log after it.
C7_LogAppendOnly == [][IsPrefix(transactions, transactions')]_vars

\* a row was appended to a start-up log that holds an xfer row and rows with
\* an empty xfer_account, with a report written and the settings changed
C7_Witness ==
    /\ start.transactions = ExampleLog
    /\ Len(transactions) = Len(ExampleLog) + 1
    /\ reports["tfsa_summary"] # NoReport
    /\ settings # InitSettings

\* the terms of the contribution room as the claim states them
Counts(r, term) ==
    CASE term = "into_tfsa" -> r.xfer_account = "tfsa"
      [] OTHER -> r.type = term /\ r.account = "tfsa"

\* the sum of total over the rows of the log that count for a term
RECURSIVE TotalOf(_, _)
TotalOf(log, term) ==
    IF log = <<>> THEN 0
    ELSE (IF Counts(Head(log), term) THEN Head(log).total ELSE 0)
         + TotalOf(Tail(log), term)

ClaimedRoom(log) ==
    TotalOf(log, "cont_limit") + TotalOf(log, "withdraw")
        - TotalOf(log, "cont") - TotalOf(log, "into_tfsa")

\* the cont_room row: the last row of a tfsa summary
RoomRow(table) == table[Len(table)]

\* C9: the tfsa summary written by a report command ends with a cont_room
\* row of count 1 whose total is (cont_limit on tfsa) + (withdraw on tfsa)
\* - (cont on tfsa) - (rows transferred into tfsa) of the log it was made of.
C9_ContributionRoom ==
    [][Dispatching("report", {"tfsa_summary"}) =>
          LET row == RoomRow(reports'["tfsa_summary"])
          IN  /\ row.type = "cont_room"
              /\ row.num = 1
              /\ row.total = ClaimedRoom(transactions)]_vars

\* the spec's example: room 4900 from all four kinds of row, the summary
\* holding one group per kind
C9_Witness ==
    /\ transactions = ExampleLog
    /\ reports["tfsa_summary"] # NoReport
    /\ Len(reports["tfsa_summary"]) = 5
    /\ RoomRow(reports["tfsa_summary"]).total = 4900000

\* the rows of a monthly income table: the asset rows, then the two totals
AssetPart(table) == SubSeq(table, 1, Len(table) - 2)

TotalMonthly(table) == table[Len(table) - 1]

TotalYearly(table) == table[Len(table)]

\* C10: in a monthly income projection, 'TOTAL MONTHLY' is the column-wise
\* sum of the asset rows in every income column, 'TOTAL YEARLY' is 12 times
\* 'TOTAL MONTHLY' in every column but yearly_total, where it holds 0.
C10_IncomeTotals ==
    LET table == reports["monthly_income"]
    IN  table # NoReport =>
          /\ TotalMonthly(table).name = "TOTAL MONTHLY"
          /\ TotalYearly(table).name = "TOTAL YEARLY"
          /\ \A c \in IncomeColumns :
                TotalMonthly(table)[c] = SumColumn(AssetPart(table), c)
          /\ \A c \in MonthlyColumns :
                TotalYearly(table)[c] = 12 * TotalMonthly(table)[c]
          /\ TotalYearly(table).yearly_total = 0

\* a projection made after a transaction changed the ledger, with two asset
\* rows that both earn
C10_Witness ==
    LET table == reports["monthly_income"]
    IN  /\ table # NoReport
        /\ assets # start.assets
        /\ Len(AssetPart(table)) = 2
        /\ \A i \in DOMAIN AssetPart(table) : table[i].monthly_total > 0
        /\ TotalMonthly(table).tfsa > table[2].tfsa

----------------------------------------------------------------------------
(* C11 .. C13, C19, C20: the reports *)

\* the schedule's columns by calendar month
RrspColumn ==
    <<"jan_rrsp", "feb_rrsp", "mar_rrsp", "apr_rrsp", "may_rrsp", "jun_rrsp",
      "jul_rrsp", "aug_rrsp", "sep_rrsp", "oct_rrsp", "nov_rrsp", "dec_rrsp">>

NonRrspColumn ==
    <<"jan_nonrrsp", "feb_nonrrsp", "mar_nonrrsp", "apr_nonrrsp", "may_nonrrsp",
      "jun_nonrrsp", "jul_nonrrsp", "aug_nonrrsp", "sep_nonrrsp", "oct_nonrrsp",
      "nov_nonrrsp", "dec_nonrrsp">>

\* the asset pays in month m
Eligible(a, m) ==
    /\ m >= a.income_first_month
    /\ (m - a.income_first_month) % a.income_freq_months = 0

\* the rows of a table but the last
AllButLast(table) == SubSeq(table, 1, Len(table) - 1)

\* C11: in the schedule a report command writes, each asset's rrsp and
\* nonrrsp cells of month m are 0 unless m >= income_first_month and
\* (m - income_first_month) mod income_freq_months = 0, and are then
\* (sdrsp + locked_sdrsp) * income_per_unit_period and
\* (margin + tfsa) * income_per_unit_period; the last row, 'TOTAL', is the
\* column-wise sum of the asset rows.
C11_IncomeSchedule ==
    [][(Dispatching("report", {"monthly_income_schedule"}) /\ pc' = "prompt") =>
          LET table == reports'["monthly_income_schedule"]
          IN  /\ Len(table) = Len(AssetRows) + 1
              /\ \A i \in DOMAIN AssetRows : \A m \in 1 .. 12 :
                    LET a == assets[AssetRows[i]]
                        rrsp == table[i][RrspColumn[m]]
                        nonrrsp == table[i][NonRrspColumn[m]]
                    IN  /\ table[i].name = AssetRows[i]
                        /\ ~Eligible(a, m) => (rrsp = 0 /\ nonrrsp = 0)
                        /\ Eligible(a, m) =>
                              /\ rrsp = (a.sdrsp + a.locked_sdrsp) * a.income_per_unit_period
                              /\ nonrrsp = (a.margin + a.tfsa) * a.income_per_unit_period
              /\ table[Len(table)].name = "TOTAL"
              /\ \A m \in 1 .. 12 : \A col \in {RrspColumn[m], NonRrspColumn[m]} :
                    table[Len(table)][col] = SumColumn(AllButLast(table), col)]_vars

\* the claim's example: a schedule in which TD (every 3 months from month 2)
\* pays in months 2, 5, 8 and 11 only, made after a buy changed its holdings
C11_Witness ==
    LET table == reports["monthly_income_schedule"]
    IN  /\ table # NoReport
        /\ assets["TD"].income_freq_months = 3
        /\ assets["TD"].income_first_month = 2
        /\ {m \in 1 .. 12 : table[1][RrspColumn[m]] # 0} = {2, 5, 8, 11}
        /\ {m \in 1 .. 12 : table[1][NonRrspColumn[m]] # 0} = {2, 5, 8, 11}
        /\ table[1]["feb_nonrrsp"] = 500
        /\ table[3]["feb_nonrrsp"] = 1500

\* C12: a report command, whatever the report type, leaves the ledger and
\* the log as they were, and the table of every other report type too.
C12_ReportsOnlyWriteTheirTable ==
    [][Dispatching("report", Range(ReportTypes)) =>
          /\ assets' = assets
          /\ transactions' = transactions
          /\ \A t \in Range(ReportTypes) :
                t # args.type => reports'[t] = reports[t]]_vars

\* the four reports have been written, on a ledger and a log that a
\* transaction had changed
C12_Witness ==
    /\ \A t \in Range(ReportTypes) : reports[t] # NoReport
    /\ assets # start.assets
    /\ Len(transactions) > Len(start.transactions)
    /\ start.transactions # <<>>

DivsOf(n, acct) ==
    {j \in DOMAIN transactions :
        /\ transactions[j].type = "div"
        /\ transactions[j].name = n
        /\ transactions[j].account = acct}

\* row j carries the latest date of the rows js
LatestOf(j, js) ==
    \A k \in js : date_rank(transactions[k].date) <= date_rank(transactions[j].date)

\* C19 as claimed: a report command for the actual income writes a table
\* in which the cell of each asset and account holding units is
\* total / income_freq_months of the dividend of latest date recorded for
\* the pair, wherever that row stands in the log, and the cell of an
\* account without units or without a dividend is 0.
C19_ActualIncome ==
    [][Dispatching("report", {"monthly_income_actual"}) =>
          LET table == reports'["monthly_income_actual"]
          IN  /\ made_from'["monthly_income_actual"] = <<Snapshot>>
              /\ Len(table) = Len(AssetRows) + 2
              /\ \A i \in DOMAIN AssetRows : \A acct \in Accounts :
                    LET n == AssetRows[i]
                        divs == DivsOf(n, acct)
                    IN  IF assets[n][acct] > 0 /\ divs # {}
                        THEN \E j \in divs :
                                /\ LatestOf(j, divs)
                                /\ table[i][acct] = (transactions[j].total * 12)
                                                        \div assets[n].income_freq_months
                        ELSE table[i][acct] = 0]_vars

----------------------------------------------------------------------------
(* C14 .. C18: the transaction handlers, continued *)

\* what the claim requires of a cash request for it to be accepted
CashAcceptable(a) ==
    CASE a.type = "cont" -> a.name = "cash" /\ a.amount >= 0
      [] a.type = "cont_limit" -> a.name = "any" /\ a.amount >= 0
      [] a.type = "withdraw" -> a.name = "cash" /\ a.amount > 0

C15_UnknownAssetRefused ==
    /\ [](DOMAIN assets = DOMAIN start.assets)
    /\ [][(Transacting({"buy", "sell", "xfer", "div"})
              /\ args.name \notin DOMAIN assets) =>
                  /\ ~ret'
                  /\ assets' = assets
                  /\ transactions' = transactions]_vars

\* a request on an asset that does not exist was refused, after a dividend
\* had changed the ledger
C15_Witness ==
    /\ ~ret
    /\ err = "does not exist"
    /\ transactions # <<>>
    /\ transactions[1].type = "div"
    /\ assets # start.assets

\* C16: a div on an asset of the ledger is accepted whatever the account
\* holds, and leaves the asset's income_per_unit_period equal to the amount
\* of the request, every other cell of the ledger being unchanged.
C16_DivSetsRate ==
    [][(Transacting({"div"}) /\ args.name \in DOMAIN assets) =>
          /\ ret'
          /\ assets'[args.name].income_per_unit_period = args.amount
          /\ assets' = [assets EXCEPT ![args.name].income_per_unit_period = args.amount]
          /\ (assets[args.name].income_per_unit_period = args.amount => assets' = assets)]_vars

\* a dividend at a new rate, then one at that rate, on an account that
\* holds no unit of the asset
C16_Witness ==
    /\ Len(transactions) = 2
    /\ \A i \in DOMAIN transactions :
          /\ transactions[i].type = "div"
          /\ transactions[i].name = "TD"
          /\ transactions[i].unit_amount = 1004
    /\ assets["TD"]["tfsa"] = 0
    /\ start.assets["TD"].income_per_unit_period = 250
    /\ assets["TD"].income_per_unit_period = 1004

\* C17: a cont, cont_limit or withdraw, accepted or refused, leaves the
\* whole ledger as it was; a buy or a sell changes no cell of the ledger but
\* the units of the named asset in the named account; an xfer changes no
\* cell but the units of the named asset in its source and target accounts.
C17_LedgerFrame ==
    [][/\ Transacting({"cont", "cont_limit", "withdraw"}) => assets' = assets
       /\ Transacting({"buy", "sell"}) =>
             OtherCellsUnchanged({<<args.name, args.account>>})
       /\ Transacting({"xfer"}) =>
             OtherCellsUnchanged({<<args.name, args.account>>,
                                  <<args.name, args.xfer_account>>})]_vars

\* a buy and then a transfer between two accounts were applied: the ledger
\* differs from the start-up ledger in the two cells of TD and nowhere else
C17_Witness ==
    /\ Len(transactions) = 2
    /\ transactions[1].type = "buy"
    /\ transactions[2].type = "xfer"
    /\ transactions[2].account # transactions[2].xfer_account
    /\ transactions[2].units > 0
    /\ assets["TD"]["margin"] # start.assets["TD"]["margin"]
    /\ assets["TD"]["tfsa"] # start.assets["TD"]["tfsa"]
    /\ assets["ENB"] = start.assets["ENB"]

\* what a row of the log records of the ledger: the units a buy added, a
\* sell took, an xfer took from its source and gave to its target (the
\* target written last), the rate a div set
Applied(ledger, r) ==
    CASE r.type = "buy" -> [ledger EXCEPT ![r.name][r.account] = @ + r.units]
      [] r.type = "sell" -> [ledger EXCEPT ![r.name][r.account] = @ - r.units]
      [] r.type = "xfer" ->
            [[ledger EXCEPT ![r.name][r.account] = @ - r.units]
                     EXCEPT ![r.name][r.xfer_account] =
                                ledger[r.name][r.xfer_account] + r.units]
      [] r.type = "div" -> [ledger EXCEPT ![r.name].income_per_unit_period = r.unit_amount]
      [] OTHER -> ledger

\* the ledger the log accounts for, from the ledger at start-up
RECURSIVE Replayed(_, _)
Replayed(ledger, log) ==
    IF log = <<>> THEN ledger
    ELSE Replayed(Applied(ledger, Head(log)), Tail(log))

\* C18 as claimed: in every stored state, the one between the two writes
\* of a buy, sell, xfer or div included, the ledger is the start-up ledger
\* with exactly the transactions of the log applied: it reflects no
\* transaction the log does not hold, and the log none the ledger lacks.
C18_NoTornWrite ==
    assets = Replayed(start.assets,
                      SubSeq(transactions, Len(start.transactions) + 1, Len(transactions)))

-----------------------------------------------------------------------------
(* C21 .. C24: the command loop and the log *)

\* the handler of the transact command being dispatched reports failure
RejectedStep == Transacting(Range(TransactionTypes)) /\ ~ret'

\* the handler of the transact command being dispatched reports success
AcceptedStep == Transacting(Range(TransactionTypes)) /\ ret' /\ pc' = "prompt"

\* a transact command whose handler reports failure leaves the loop at its
\* prompt with the settings it had
RejectedKeepsLoop ==
    [][RejectedStep => (pc' = "prompt" /\ settings' = settings)]_vars

\* C21: a rejected transaction is never fatal: after a transact command whose
\* handler reports failure the loop is at its prompt with unchanged settings,
\* the prompt accepts a next command, and the loop ends only at the prompt,
\* on quit or end of input
C21_RejectedNotFatal ==
    /\ RejectedKeepsLoop
    /\ [](pc = "prompt" => ENABLED ReadReport)
    /\ [][pc' = "done" => pc \in {"prompt", "done"}]_vars

\* the directory holds all required data files
HoldsDataFiles(path) ==
    /\ path \in Directories
    /\ \A f \in DataFiles : Exists(path \o <<f>>)

\* a datapath --set command is being dispatched
SettingDatapath == Dispatching("datapath", {""}) /\ args.path # NoPath

\* a datapath --set of a directory that holds all required data files makes
\* that directory the settings' data directory
SetSucceeds ==
    [][(SettingDatapath /\ HoldsDataFiles(args.path))
          => settings'.datapath = args.path]_vars

\* a datapath --set that the command refuses leaves the settings and the
\* tables alone
SetFailureChangesNothing ==
    [][(SettingDatapath /\ ~data_files_exist(args.path))
          => /\ settings' = settings
             /\ UNCHANGED <<assets, transactions, reports>>]_vars

\* the tables the commands read and write are the files of the settings' data
\* directory
TablesUnderDatapath ==
    \A f \in DataFiles : Filename(f) = settings.datapath \o <<f>>

\* C22: a datapath --set of an existing directory holding all required data
\* files makes it the settings' data directory, and every later command reads
\* and writes its tables under that directory; a datapath --set that fails
\* leaves the settings' data directory and the tables in use unchanged
C22_DatapathSwitchesTables ==
    /\ SetSucceeds
    /\ SetFailureChangesNothing
    /\ []TablesUnderDatapath

\* the log rows appended since start-up
Appended ==
    SubSeq(transactions, Len(start.transactions) + 1, Len(transactions))

\* the sum of the units of the xfer rows of a log into the cell (n, acct)
RECURSIVE UnitsXferredIn(_, _, _)
UnitsXferredIn(log, n, acct) ==
    IF log = <<>> THEN 0
    ELSE (IF /\ Head(log).type = "xfer"
             /\ Head(log).name = n
             /\ Head(log).xfer_account = acct
          THEN Head(log).units ELSE 0)
         + UnitsXferredIn(Tail(log), n, acct)

\* the balance of the cell (n, acct) that the log accounts for
Accounted(n, acct) ==
    start.assets[n][acct]
        + UnitsLogged(Appended, "buy", n, acct)
        - UnitsLogged(Appended, "sell", n, acct)
        - UnitsLogged(Appended, "xfer", n, acct)
        + UnitsXferredIn(Appended, n, acct)

\* C23: at every command boundary the unit balance of every asset in every
\* account is the initial balance plus the units of the logged buys, minus
\* those of the logged sells, minus those of the logged xfers out of the
\* account, plus those of the logged xfers into it
C23_LedgerMatchesLog ==
    pc = "prompt" =>
        \A n \in DOMAIN assets : \A acct \in Accounts :
            assets[n][acct] = Accounted(n, acct)

\* the same on the cells that no logged xfer has as both source and target
LedgerMatchesLogButSelfXfer ==
    pc = "prompt" =>
        \A n \in DOMAIN assets : \A acct \in Accounts :
            (\A i \in DOMAIN Appended :
                ~ /\ Appended[i].type = "xfer"
                  /\ Appended[i].name = n
                  /\ Appended[i].account = acct
                  /\ Appended[i].xfer_account = acct)
            => assets[n][acct] = Accounted(n, acct)

\* the record the request being dispatched is to leave in the log
CarriesRequest(r) ==
    /\ r.type = args.type
    /\ r.name = args.name
    /\ r.account = args.account
    /\ r.units = args.units
    /\ r.xfer_account = IF args.type = "xfer" THEN args.xfer_account ELSE ""

\* C24: every accepted transaction appends exactly one record to the log and
\* every rejected one appends none, so the length of the log is its initial
\* length plus the number of accepted transactions; the appended record
\* carries the type, asset name, account and unit count of the request, and
\* its transfer target is the supplied one for an xfer and empty otherwise
C24_OneRecordPerAccepted ==
    /\ [](Len(transactions) = Len(start.transactions) + accepted)
    /\ [][AcceptedStep =>
            /\ Len(transactions') = Len(transactions) + 1
            /\ IsPrefix(transactions, transactions')
            /\ CarriesRequest(transactions'[Len(transactions')])]_vars
    /\ [][RejectedStep => transactions' = transactions]_vars

\* an xfer was accepted and appended with its target, and the transact
\* command after it was rejected
C24_Witness ==
    /\ accepted = 1
    /\ Len(Appended) = 1
    /\ Appended[1].type = "xfer"
    /\ Appended[1].xfer_account = "tfsa"
    /\ Appended[1].account = "margin"
    /\ pc = "prompt"
    /\ ~ret

====
